---- MODULE Spec2Model ----
(***************************************************************************)
(* Portfolio analytics engine of personal-finance-agent: the allocation    *)
(* drift detector, the market dip scout and the performance calculator,    *)
(* as written in app.py (dashboard) and run_agent.py (scheduled run).      *)
(***************************************************************************)
EXTENDS Integers, Sequences, FiniteSets, TLC

VARIABLES
    impl,                \* which file's copy of the analyzers runs: "app" or "agent"
    pc,                  \* position of the run
    portfolio_df,        \* Holdings: sequence of [Asset, Category, Current_Value]
    rules_sheet,         \* records of the Rules sheet, as get_all_records returns them
    rules_df,            \* AllocationRules: sequence of [Category, Target_Percentage, Rebalance_Threshold]
    rebalance_insights,  \* list returned by generate_rebalance_insights
    rebalance_shown,     \* lines generate_rebalance_insights displays (st.error/st.success, print)
    watchlist_df,        \* Watchlist: sequence of [Ticker, Asset_Name, Dip_Threshold_Percent]
    row_i,               \* check_market_dips: number of watchlist rows processed
    data,                \* check_market_dips: the provider's answer for the row just processed
    market_insights,     \* insight_messages of check_market_dips
    market_shown,        \* lines check_market_dips displays, each tagged with its row
    ticker_df,           \* TickerMap: sequence of [Asset, Ticker]
    asset_i,             \* get_asset_performance: number of unique assets processed
    hist,                \* get_asset_performance: the provider call made for the asset just processed
    performance_data,    \* rows appended by get_asset_performance
    gsheet_client,       \* main: did get_gsheet_client return a client?
    has_groq_key,        \* is GROQ_API_KEY configured?
    news_i,              \* analyze_market_news: number of watchlist rows processed
    news_insights,       \* list built by analyze_market_news
    summary,             \* what get_llm_summary returned to its caller
    completion,          \* the answer of the chat completion last requested
    summarizer_calls,    \* number of chat completions requested by get_llm_summary
    whatsapp_sent,       \* number of messages handed to Twilio by send_whatsapp_message
    report               \* how the run ended, as printed or displayed by the caller

vars == <<impl, pc, portfolio_df, rules_sheet, rules_df, rebalance_insights, rebalance_shown,
          watchlist_df, row_i, data, market_insights, market_shown,
          ticker_df, asset_i, hist, performance_data,
          gsheet_client, has_groq_key, news_i, news_insights, summary,
          completion, summarizer_calls, whatsapp_sent, report>>

\* the provider has not been called in this iteration
NoCall == [called |-> FALSE]

driftVars == <<rules_sheet, rules_df, rebalance_insights, rebalance_shown>>
dipVars   == <<watchlist_df, row_i, data, market_insights, market_shown>>
perfVars  == <<ticker_df, asset_i, hist, performance_data>>
mainVars  == <<gsheet_client, has_groq_key, news_i, news_insights, summary,
               completion, summarizer_calls, whatsapp_sent, report>>

\* no value: python's None for a string result
None == [none |-> TRUE, str |-> <<>>]

\* the run is a single analyzer's: the caller's variables are not in use
MainIdle ==
    /\ gsheet_client = TRUE /\ has_groq_key = TRUE
    /\ news_i = 0 /\ news_insights = <<>>
    /\ summary = None
    /\ completion = NoCall
    /\ summarizer_calls = 0 /\ whatsapp_sent = 0
    /\ report = "running"


-----------------------------------------------------------------------------
(* Bounds of the model *)

MaxHoldings == 2
MaxRules == 2
MaxWatch == 2
MaxPoints == 2
MaxTickers == 2
MaxHistPoints == 4

-----------------------------------------------------------------------------
(* Generic helpers *)

Abs(x) == IF x < 0 THEN -x ELSE x

SeqsUpTo(S, n) == UNION {[1..k -> S] : k \in 0..n}

RECURSIVE SumSeq(_)
SumSeq(s) == IF s = <<>> THEN 0 ELSE Head(s) + SumSeq(Tail(s))

-----------------------------------------------------------------------------
(* IEEE-754 doubles as pandas/numpy produce them, kept exact: a finite     *)
(* value is the fraction n/d (d > 0); a division by zero gives nan or      *)
(* +-inf instead of raising.                                                *)

Num(n, d) == [k |-> "num", n |-> n, d |-> d]
NaN    == [k |-> "nan"]
PosInf == [k |-> "inf", s |-> 1]
NegInf == [k |-> "inf", s |-> -1]

\* a / b for integers a, b under numpy's rules
FloatDiv(a, b) ==
    IF b = 0 THEN (IF a = 0 THEN NaN ELSE IF a > 0 THEN PosInf ELSE NegInf)
    ELSE IF b > 0 THEN Num(a, b) ELSE Num(-a, -b)

\* x * c for an integer c > 0
FloatScale(x, c) == IF x.k = "num" THEN Num(x.n * c, x.d) ELSE x

\* x - t for an integer t
FloatMinusInt(x, t) == IF x.k = "num" THEN Num(x.n - t * x.d, x.d) ELSE x

FloatAbs(x) ==
    IF x.k = "num" THEN Num(Abs(x.n), x.d)
    ELSE IF x.k = "inf" THEN PosInf ELSE x

\* x > t for an integer t; every comparison with nan is False
FloatGtInt(x, t) ==
    IF x.k = "num" THEN x.n > t * x.d
    ELSE IF x.k = "inf" THEN x.s > 0 ELSE FALSE

\* Series.fillna(0)
FillNa0(x) == IF x.k = "nan" THEN Num(0, 1) ELSE x

\* round(n/d) to the nearest integer, ties to even, for n >= 0, d > 0
RoundHalfEven(n, d) ==
    LET q == n \div d
        r == n % d
    IN  IF 2 * r < d THEN q
        ELSE IF 2 * r > d THEN q + 1
        ELSE IF q % 2 = 0 THEN q ELSE q + 1

\* f"{x:.1f}": the text as the number of tenths it shows, or python's nan/inf
Fmt1(x) ==
    IF x.k = "nan" THEN [txt |-> "nan"]
    ELSE IF x.k = "inf" THEN [txt |-> IF x.s > 0 THEN "inf" ELSE "-inf"]
    ELSE IF x.n < 0 THEN [txt |-> "num", tenths |-> -RoundHalfEven(10 * (-x.n), x.d)]
    ELSE [txt |-> "num", tenths |-> RoundHalfEven(10 * x.n, x.d)]

-----------------------------------------------------------------------------
(* Allocation drift detector: generate_rebalance_insights *)

Impls == {"app", "agent"}

HoldingCategories == {"Equity", "Debt"}
DriftAssets == {"A"}
\* run_agent.load_portfolio keeps every numeric Current_Value of the sheet
AgentValues == {-3, 0, 3, 7}
\* app.load_portfolio keeps only rows with Invested Value > 0
AppValues == {v \in AgentValues : v > 0}

HoldingRows(values) ==
    [Asset : DriftAssets, Category : HoldingCategories, Current_Value : values]

\* app.load_portfolio groups by (Asset, Category): one row per pair
NoDuplicatePair(h) ==
    \A i, j \in 1..Len(h) :
        (h[i].Asset = h[j].Asset /\ h[i].Category = h[j].Category) => i = j

AgentPortfolios == SeqsUpTo(HoldingRows(AgentValues), MaxHoldings)
AppPortfolios ==
    {h \in SeqsUpTo(HoldingRows(AppValues), MaxHoldings) : NoDuplicatePair(h)}

Rule(c, t, r) == [Category |-> c, Target_Percentage |-> t, Rebalance_Threshold |-> r]

\* rows of the Rules sheet: Equity is held, Gold has a rule and no holding
RuleRows ==
    { Rule("Equity", 60, 5), Rule("Equity", 65, 5), Rule("Equity", 60, 10),
      Rule("Gold", 60, 5), Rule("Gold", 5, 5) }

RuleSets == SeqsUpTo(RuleRows, MaxRules)

\* a row of the Rules sheet whose Target_Percentage cell holds text
TextRule(c, r) ==
    [Category |-> c, Target_Percentage |-> 0, Rebalance_Threshold |-> r, text |-> TRUE]

IsTextRule(rule) == "text" \in DOMAIN rule

\* what the Rules sheet may hold: well-formed rows and a malformed one
RuleSheets == SeqsUpTo(RuleRows \cup {TextRule("Gold", 5)}, MaxRules)

\* pd.to_numeric(df['Target_Percentage']) raises ValueError on a text cell
ToNumericRaises(sheet) == \E i \in 1..Len(sheet) : IsTextRule(sheet[i])

\* load_rules_from_sheet: the frame of the sheet's records; any exception gives
\* an empty frame
load_rules_from_sheet ==
    /\ pc = "load"
    /\ pc' = "start"
    /\ rules_df' = IF ToNumericRaises(rules_sheet) THEN <<>> ELSE rules_sheet
    /\ UNCHANGED <<impl, portfolio_df, rules_sheet, rebalance_insights,
                   rebalance_shown, dipVars, perfVars>>
    /\ UNCHANGED mainVars

\* portfolio_df.groupby('Category')['Current_Value'].sum()
CategoryValue(pf, c) ==
    SumSeq([i \in 1..Len(pf) |->
              IF pf[i].Category = c THEN pf[i].Current_Value ELSE 0])

HeldCategories(pf) == {pf[i].Category : i \in 1..Len(pf)}

\* category_df['Current_Value'].sum()
TotalValue(pf) == SumSeq([i \in 1..Len(pf) |-> pf[i].Current_Value])

\* faulty variant: the merge without fillna(0), a rule without holding keeps nan
CurrentPercentage_NoFillNa(pf, c) ==
    IF c \in HeldCategories(pf)
    THEN FloatScale(FloatDiv(CategoryValue(pf, c), TotalValue(pf)), 100)
    ELSE NaN

\* Current_Percentage of a rule's row after the left merge and fillna(0)
CurrentPercentage(pf, c) ==
    IF c \in HeldCategories(pf)
    THEN FillNa0(FloatScale(FloatDiv(CategoryValue(pf, c), TotalValue(pf)), 100))
    ELSE FillNa0(NaN)

Drift(pf, rule) ==
    FloatMinusInt(CurrentPercentage(pf, rule.Category), rule.Target_Percentage)

\* faulty variant: the comparison with the threshold made non-strict
IsAlert_NonStrict(pf, rule) ==
    \/ FloatGtInt(FloatAbs(Drift(pf, rule)), rule.Rebalance_Threshold)
    \/ FloatAbs(Drift(pf, rule)) = Num(rule.Rebalance_Threshold * Drift(pf, rule).d,
                                       Drift(pf, rule).d)

IsAlert(pf, rule) ==
    FloatGtInt(FloatAbs(Drift(pf, rule)), rule.Rebalance_Threshold)

AllocationStatus(drift) ==
    IF FloatGtInt(drift, 0) THEN "over-allocated" ELSE "under-allocated"

\* the ALERT line; the agent's wording also cites the threshold, the
\* dashboard's does not (cites |-> FALSE, threshold left at 0)
AlertMessage(im, pf, rule) ==
    [kind |-> "ALERT", category |-> rule.Category,
     curr |-> Fmt1(CurrentPercentage(pf, rule.Category)),
     target |-> rule.Target_Percentage,
     drift |-> Fmt1(FloatAbs(Drift(pf, rule))),
     status |-> AllocationStatus(Drift(pf, rule)),
     cites |-> (im = "agent"),
     threshold |-> IF im = "agent" THEN rule.Rebalance_Threshold ELSE 0]

OkMessage(pf, rule) ==
    [kind |-> "OK", category |-> rule.Category,
     curr |-> Fmt1(CurrentPercentage(pf, rule.Category))]

\* what the loop over merged_df shows for one rule: app shows ALERT or OK,
\* the agent prints alerts only
ShownForRule(im, pf, rule) ==
    IF IsAlert(pf, rule) THEN <<AlertMessage(im, pf, rule)>>
    ELSE IF im = "app" THEN <<OkMessage(pf, rule)>>
    ELSE <<>>

\* faulty variant: the OK line appended to the returned list as well
ReturnedForRule_WithOk(im, pf, rule) ==
    IF IsAlert(pf, rule) THEN <<AlertMessage(im, pf, rule)>>
    ELSE <<OkMessage(pf, rule)>>

ReturnedForRule(im, pf, rule) ==
    IF IsAlert(pf, rule) THEN <<AlertMessage(im, pf, rule)>> ELSE <<>>

\* insight_messages after the loop over merged_df, which keeps the rules' order
RECURSIVE ReturnedInsights(_, _, _)
ReturnedInsights(im, pf, rules) ==
    IF rules = <<>> THEN <<>>
    ELSE ReturnedForRule(im, pf, Head(rules)) \o ReturnedInsights(im, pf, Tail(rules))

\* the lines displayed by the same loop
RECURSIVE ShownLines(_, _, _)
ShownLines(im, pf, rules) ==
    IF rules = <<>> THEN <<>>
    ELSE ShownForRule(im, pf, Head(rules)) \o ShownLines(im, pf, Tail(rules))

\* DataFrame.empty
DfEmpty(df) == Len(df) = 0

generate_rebalance_insights ==
    /\ pc = "start"
    /\ pc' = "done"
    /\ IF DfEmpty(portfolio_df) \/ DfEmpty(rules_df)
       THEN /\ rebalance_insights' = <<>>
            /\ rebalance_shown' = <<>>
       ELSE /\ rebalance_insights' =
                   ReturnedInsights(impl, portfolio_df, rules_df)
            /\ rebalance_shown' =
                   ShownLines(impl, portfolio_df, rules_df)
    /\ UNCHANGED <<impl, portfolio_df, rules_sheet, rules_df, dipVars, perfVars>>
    /\ UNCHANGED mainVars

DriftInit ==
    /\ impl \in Impls
    /\ pc = "load"
    /\ portfolio_df \in (IF impl = "app" THEN AppPortfolios ELSE AgentPortfolios)
    /\ rules_sheet \in RuleSheets
    /\ rules_df = <<>>
    /\ rebalance_insights = <<>>
    /\ rebalance_shown = <<>>
    /\ watchlist_df = <<>> /\ row_i = 0 /\ data = NoCall
    /\ market_insights = <<>> /\ market_shown = <<>>
    /\ ticker_df = <<>> /\ asset_i = 0 /\ hist = NoCall /\ performance_data = <<>>
    /\ MainIdle

DriftNext ==
    \/ load_rules_from_sheet
    \/ generate_rebalance_insights

SpecDrift == DriftInit /\ [][DriftNext]_vars

-----------------------------------------------------------------------------
(* Market dip scout: check_market_dips *)

\* a cell of the provider's frame: a price, or missing (nan)
Price(v) == [na |-> FALSE, v |-> v]
Missing == [na |-> TRUE, v |-> 0]

HighValues == {90, 100}
CloseValues == {85, 100}

\* rows of a daily OHLC frame: High and Close may each be missing, and a
\* close never exceeds the same day's high
DipPoints ==
    {pt \in [High : {Missing} \cup {Price(v) : v \in HighValues},
             Close : {Missing} \cup {Price(v) : v \in CloseValues}] :
        (~pt.High.na /\ ~pt.Close.na) => pt.Close.v <= pt.High.v}

\* ticker_obj.history(start=one_year_ago, end=today): a frame, or an exception
DipResponses ==
    {[called |-> TRUE, err |-> TRUE, rows |-> <<>>]}
    \cup {[called |-> TRUE, err |-> FALSE, rows |-> r] :
             r \in SeqsUpTo(DipPoints, MaxPoints)}

WatchRows ==
    { [Ticker |-> "X", Asset_Name |-> "Xcorp", Dip_Threshold_Percent |-> 10],
      [Ticker |-> "Y", Asset_Name |-> "Ycorp", Dip_Threshold_Percent |-> 15] }

WatchColumns == {"Ticker", "Asset_Name", "Dip_Threshold_Percent"}

\* the columns the Watchlist sheet may hold: load_watchlist needs only
\* Dip_Threshold_Percent, so the sheet may lack Ticker or Asset_Name
SheetColumnSets ==
    {WatchColumns, WatchColumns \ {"Ticker"}, WatchColumns \ {"Asset_Name"}}

\* a row of a frame that has only the columns cols
Project(w, cols) == [c \in cols |-> w[c]]

Watchlists ==
    {[i \in 1..Len(wl) |-> Project(wl[i], cols)] :
        wl \in SeqsUpTo(WatchRows, MaxWatch), cols \in SheetColumnSets}

\* row['Ticker'], row['Asset_Name'] or row['Dip_Threshold_Percent'] raises KeyError
RowKeyError(w) == ~(WatchColumns \subseteq DOMAIN w)

\* the except clause formats row['Asset_Name'] and raises KeyError itself
HandlerRaises(w) == "Asset_Name" \notin DOMAIN w

\* Series.dropna() of one column, as the sequence of its values
RECURSIVE DropNa(_)
DropNa(col) ==
    IF col = <<>> THEN <<>>
    ELSE IF Head(col).na THEN DropNa(Tail(col))
    ELSE <<Head(col).v>> \o DropNa(Tail(col))

Column(rows, name) ==
    [i \in 1..Len(rows) |-> IF name = "High" THEN rows[i].High ELSE rows[i].Close]

\* Series.max(): the largest value, missing values skipped; nan when none is left
RECURSIVE MaxOf(_)
MaxOf(vals) ==
    IF Len(vals) = 1 THEN vals[1]
    ELSE LET m == MaxOf(Tail(vals)) IN IF Head(vals) > m THEN Head(vals) ELSE m

SeriesMax(col) ==
    IF DropNa(col) = <<>> THEN NaN ELSE Num(MaxOf(DropNa(col)), 1)

\* faulty variant: the first valid close taken instead of the last (iloc[0])
LastValid_First(col) == DropNa(col)[1]

\* clean_close.iloc[-1]
LastValid(col) == DropNa(col)[Len(DropNa(col))]

\* ((current_price - high_52_week) / high_52_week) * 100
PercentFromHigh(current_price, high_52_week) ==
    IF high_52_week.k # "num" THEN NaN
    ELSE FloatScale(FloatDiv(current_price * high_52_week.d - high_52_week.n,
                             high_52_week.n), 100)

\* does this copy skip the row for lack of data?  app.py tests data.empty and
\* clean_close.empty; run_agent.py tests clean_high.empty as well
DipSkips(im, rows) ==
    \/ DfEmpty(rows)
    \/ DropNa(Column(rows, "Close")) = <<>>
    \/ im = "agent" /\ DropNa(Column(rows, "High")) = <<>>

DipPercent(rows) ==
    PercentFromHigh(LastValid(Column(rows, "Close")), SeriesMax(Column(rows, "High")))

IsDip(rows, threshold) == FloatGtInt(FloatAbs(DipPercent(rows)), threshold)

\* the OPPORTUNITY line; the agent's wording also cites ticker, prices and threshold
OpportunityMessage(im, w, rows) ==
    IF im = "app"
    THEN [kind |-> "OPPORTUNITY", asset_name |-> w.Asset_Name,
          pct |-> Fmt1(FloatAbs(DipPercent(rows)))]
    ELSE [kind |-> "OPPORTUNITY", asset_name |-> w.Asset_Name,
          pct |-> Fmt1(FloatAbs(DipPercent(rows))),
          ticker |-> w.Ticker,
          current |-> LastValid(Column(rows, "Close")),
          high |-> SeriesMax(Column(rows, "High")),
          threshold |-> w.Dip_Threshold_Percent]

DipOkMessage(im, w, rows) ==
    IF im = "app"
    THEN [kind |-> "OK", asset_name |-> w.Asset_Name,
          pct |-> Fmt1(FloatAbs(DipPercent(rows)))]
    ELSE [kind |-> "OK", asset_name |-> w.Asset_Name]

Shown(i, msg) == [row |-> i, kind |-> msg.kind, line |-> msg]

\* lines one iteration displays: st.info / st.success / st.error in app.py,
\* print in run_agent.py (which also prints a warning when it skips)
DipShown(im, i, w, resp) ==
    IF resp.err
    THEN <<Shown(i, [kind |-> "ERROR", asset_name |-> w.Asset_Name])>>
    ELSE IF DipSkips(im, resp.rows)
    THEN (IF im = "agent"
          THEN <<Shown(i, [kind |-> "WARNING", asset_name |-> w.Asset_Name])>>
          ELSE <<>>)
    ELSE IF IsDip(resp.rows, w.Dip_Threshold_Percent)
    THEN <<Shown(i, OpportunityMessage(im, w, resp.rows))>>
    ELSE <<Shown(i, DipOkMessage(im, w, resp.rows))>>

\* what one iteration appends to insight_messages
DipReturned(im, w, resp) ==
    IF resp.err \/ DipSkips(im, resp.rows) THEN <<>>
    ELSE IF IsDip(resp.rows, w.Dip_Threshold_Percent)
    THEN <<OpportunityMessage(im, w, resp.rows)>>
    ELSE <<>>

\* entry of check_market_dips: an empty watchlist returns [] at once
check_market_dips_enter ==
    /\ pc = "start"
    /\ pc' = IF DfEmpty(watchlist_df) THEN "done" ELSE "scan"
    /\ UNCHANGED <<impl, portfolio_df, driftVars, watchlist_df, row_i, data,
                   market_insights, market_shown, perfVars>>
    /\ UNCHANGED mainVars

\* `for _, row in watchlist_df.iterrows()`: the loop takes the next row; the
\* previous iteration's frame is gone
check_market_dips_next ==
    /\ pc = "scan"
    /\ row_i < Len(watchlist_df)
    /\ pc' = "row"
    /\ row_i' = row_i + 1
    /\ data' = NoCall
    /\ UNCHANGED <<impl, portfolio_df, driftVars, watchlist_df,
                   market_insights, market_shown, perfVars>>
    /\ UNCHANGED mainVars

\* the loop body for row row_i: the reads of the row's fields, the provider call
\* and what follows it; an exception raised by the except clause leaves the
\* function
check_market_dips_row ==
    /\ pc = "row"
    /\ LET w == watchlist_df[row_i]
       IN  IF RowKeyError(w)
           THEN /\ pc' = IF HandlerRaises(w) THEN "raised" ELSE "scan"
                /\ market_shown' =
                      IF HandlerRaises(w) THEN market_shown
                      ELSE Append(market_shown,
                                  Shown(row_i, [kind |-> "ERROR",
                                                asset_name |-> w.Asset_Name]))
                /\ UNCHANGED <<data, market_insights>>
           ELSE /\ pc' = "scan"
                /\ \E resp \in DipResponses :
                      /\ data' = resp
                      /\ market_insights' = market_insights \o DipReturned(impl, w, resp)
                      /\ market_shown' = market_shown \o DipShown(impl, row_i, w, resp)
    /\ UNCHANGED <<impl, portfolio_df, driftVars, watchlist_df, row_i, perfVars>>
    /\ UNCHANGED mainVars

\* return insight_messages
check_market_dips_return ==
    /\ pc = "scan"
    /\ row_i = Len(watchlist_df)
    /\ pc' = "done"
    /\ UNCHANGED <<impl, portfolio_df, driftVars, dipVars, perfVars>>
    /\ UNCHANGED mainVars

DipInit ==
    /\ impl \in Impls
    /\ pc = "start"
    /\ portfolio_df = <<>> /\ rules_sheet = <<>> /\ rules_df = <<>>
    /\ rebalance_insights = <<>> /\ rebalance_shown = <<>>
    /\ watchlist_df \in Watchlists
    /\ row_i = 0 /\ data = NoCall
    /\ market_insights = <<>> /\ market_shown = <<>>
    /\ ticker_df = <<>> /\ asset_i = 0 /\ hist = NoCall /\ performance_data = <<>>
    /\ MainIdle

DipNext ==
    \/ check_market_dips_enter
    \/ check_market_dips_next
    \/ check_market_dips_row
    \/ check_market_dips_return

SpecDip == DipInit /\ [][DipNext]_vars

-----------------------------------------------------------------------------
(* Performance calculator: get_asset_performance (app.py only) *)

\* strings are sequences of characters, so that strip() and lower() compute
Blank == " "
sA == <<"A">>
sA_padded == <<"A", " ">>
sA_padded2 == <<" ", "A", " ">>
sB == <<"B">>
sX == <<"X">>
sY_padded == <<" ", "Y", " ">>
sEmpty == <<>>
sBlank == <<" ">>
sNaN == <<"N", "a", "N">>
sNotFound == <<"Not Found">>

\* str.strip()
RECURSIVE LStrip(_)
LStrip(str) ==
    IF str # <<>> /\ Head(str) = Blank THEN LStrip(Tail(str)) ELSE str

RECURSIVE RStrip(_)
RStrip(str) ==
    IF str # <<>> /\ str[Len(str)] = Blank
    THEN RStrip(SubSeq(str, 1, Len(str) - 1)) ELSE str

Strip(str) == RStrip(LStrip(str))

\* str.lower()
LowerChar(c) ==
    CASE c = "A" -> "a" [] c = "B" -> "b" [] c = "N" -> "n"
      [] c = "X" -> "x" [] c = "Y" -> "y" [] OTHER -> c

Lower(str) == [i \in 1..Len(str) |-> LowerChar(str[i])]

\* assets of the Transactions sheet; load_portfolio keeps raw names, one row per
\* (Asset, Category) pair, values > 0
PerfAssets == {sA_padded, sB}

PerfPortfolios ==
    {h \in SeqsUpTo([Asset : PerfAssets, Category : HoldingCategories,
                     Current_Value : {3}], MaxHoldings) :
        NoDuplicatePair(h)}

\* rows of the Ticker sheet
TickerRows ==
    { [Asset |-> sA, Ticker |-> sX],
      [Asset |-> sA_padded2, Ticker |-> sY_padded],
      [Asset |-> sB, Ticker |-> sEmpty],
      [Asset |-> sB, Ticker |-> sBlank],
      [Asset |-> sB, Ticker |-> sNaN] }

TickerMaps == SeqsUpTo(TickerRows, MaxTickers)

\* calendar days as integers, day 0 a Monday: d % 7 is 0 for Monday .. 6 for Sunday
Weekday(d) == d % 7

\* trading days a price series may hold: 371 and 364 are Mondays, 368 and 361
\* Fridays, 4 a Friday more than a year before 371
PerfDates == {4, 361, 364, 368, 371}
PerfCloses == {50, 100}

PerfPointSets == {ds \in SUBSET PerfDates : Cardinality(ds) <= MaxHistPoints}

\* the dates of ds in ascending order
RECURSIVE SortedDates(_)
SortedDates(ds) ==
    IF ds = {} THEN <<>>
    ELSE LET m == CHOOSE d \in ds : \A e \in ds : d <= e
         IN  <<m>> \o SortedDates(ds \ {m})

\* a PriceSeries: ascending dates, one point per date
PerfSeries ==
    UNION { {[i \in 1..Len(SortedDates(ds)) |->
                 [date |-> SortedDates(ds)[i], Close |-> c[i]]] :
             c \in [1..Cardinality(ds) -> PerfCloses]} :
            ds \in PerfPointSets }

FixedSeries ==
    <<[date |-> 364, Close |-> 50], [date |-> 371, Close |-> 100]>>

\* a point whose Close cell holds text instead of a number
TextPoint(d) == [date |-> d, Close |-> 0, text |-> TRUE]

IsText(pt) == "text" \in DOMAIN pt

\* a Close column holding a text cell has dtype object: its numbers are python
\* numbers, not numpy doubles
ObjectDtype(rows) == \E i \in 1..Len(rows) : IsText(rows[i])

\* frames with a degenerate cell: a zero close as the previous close, as a
\* lookback reference and as every close; a text close as a lookback
\* reference, as the previous close and as the current price
DegenerateSeries ==
    { <<[date |-> 368, Close |-> 0], [date |-> 371, Close |-> 100]>>,
      <<[date |-> 364, Close |-> 0], [date |-> 368, Close |-> 50],
        [date |-> 371, Close |-> 100]>>,
      <<[date |-> 368, Close |-> 0], [date |-> 371, Close |-> 0]>>,
      <<[date |-> 361, Close |-> 100], TextPoint(364),
        [date |-> 368, Close |-> 100], [date |-> 371, Close |-> 100]>>,
      <<[date |-> 364, Close |-> 50], TextPoint(368), [date |-> 371, Close |-> 100]>>,
      <<[date |-> 364, Close |-> 50], TextPoint(371)>> }

\* t.history(period='1y') for a ticker: a frame, or an exception
PerfResponses(ticker) ==
    IF ticker = sX
    THEN {[err |-> TRUE, rows |-> <<>>]}
         \cup {[err |-> FALSE, rows |-> r] : r \in PerfSeries \cup DegenerateSeries}
    ELSE {[err |-> TRUE, rows |-> <<>>], [err |-> FALSE, rows |-> <<>>],
          [err |-> FALSE, rows |-> FixedSeries]}

\* dict(zip(Asset.str.strip(), Ticker.str.strip())).get(clean_asset): a later
\* row of the same stripped asset replaces an earlier one; None when absent
AssetToTicker(tdf, clean_asset) ==
    LET hits == {j \in 1..Len(tdf) : Strip(tdf[j].Asset) = clean_asset}
    IN  IF hits = {} THEN [none |-> TRUE, str |-> <<>>]
        ELSE [none |-> FALSE,
              str |-> Strip(tdf[CHOOSE j \in hits : \A k \in hits : k <= j].Ticker)]

\* faulty variant: the condition written `ticker is not None`
Truthy_NotNone(ticker) == ~ticker.none

\* `ticker` as a condition: None and '' are falsy
Truthy(ticker) == ~ticker.none /\ ticker.str # <<>>

\* if ticker and ticker.lower() != 'nan' and ticker != ''
TickerUsable(ticker) ==
    /\ Truthy(ticker)
    /\ Lower(ticker.str) # <<"n", "a", "n">>
    /\ ticker.str # <<>>

\* faulty variant: the loop run over portfolio_df['Asset'] without unique()
UniqueAssets_All(pf) == [i \in 1..Len(pf) |-> pf[i].Asset]

\* portfolio_df['Asset'].unique(): first appearances, in order
RECURSIVE Unique(_)
Unique(assets) ==
    IF assets = <<>> THEN <<>>
    ELSE LET rest == Unique(SubSeq(assets, 1, Len(assets) - 1))
             last == assets[Len(assets)]
         IN  IF \E i \in 1..Len(rest) : rest[i] = last THEN rest
             ELSE Append(rest, last)

UniqueAssets(pf) == Unique([i \in 1..Len(pf) |-> pf[i].Asset])

NA == [txt |-> "NA"]

\* f"{x:+.2f}%": sign and hundredths of a percent, or python's inf/nan
Fmt2Signed(x) ==
    IF x.k = "nan" THEN [txt |-> "+nan%"]
    ELSE IF x.k = "inf" THEN [txt |-> IF x.s > 0 THEN "+inf%" ELSE "-inf%"]
    ELSE IF x.n < 0
         THEN [txt |-> "pct", sign |-> "-", hundredths |-> RoundHalfEven(100 * (-x.n), x.d)]
         ELSE [txt |-> "pct", sign |-> "+", hundredths |-> RoundHalfEven(100 * x.n, x.d)]

\* ((current_price - ref) / ref) * 100, formatted
PctChange(current_price, ref) ==
    Fmt2Signed(FloatScale(FloatDiv(current_price - ref, ref), 100))

\* timeframes
Days1W == 7
Days1M == 30
Days3M == 90
Days6M == 180
Days1Y == 365

\* faulty variant: the filter written hist.index < target_date
RECURSIVE PastData_Strict(_, _)
PastData_Strict(rows, target_date) ==
    IF rows = <<>> THEN <<>>
    ELSE IF Head(rows).date < target_date
         THEN <<Head(rows)>> \o PastData_Strict(Tail(rows), target_date)
         ELSE PastData_Strict(Tail(rows), target_date)

\* hist[hist.index <= target_date]: the rows kept, in frame order
RECURSIVE PastData(_, _)
PastData(rows, target_date) ==
    IF rows = <<>> THEN <<>>
    ELSE IF Head(rows).date <= target_date
         THEN <<Head(rows)>> \o PastData(Tail(rows), target_date)
         ELSE PastData(Tail(rows), target_date)

\* one lookback column
Lookback(rows, days_back) ==
    LET current_price == rows[Len(rows)].Close
        current_date == rows[Len(rows)].date
        past_data == PastData(rows, current_date - days_back)
    IN  IF past_data # <<>>
        THEN PctChange(current_price, past_data[Len(past_data)].Close)
        ELSE NA

NaColumns == [d1 |-> NA, w1 |-> NA, m1 |-> NA, m3 |-> NA, m6 |-> NA, y1 |-> NA]

\* faulty variant: one point accepted (len(hist) > 0), the 1-day change taken against
\* the only close
Columns_OnePoint(rows) ==
    IF ~DfEmpty(rows)
    THEN [d1 |-> PctChange(rows[Len(rows)].Close,
                           rows[IF Len(rows) > 1 THEN Len(rows) - 1 ELSE 1].Close),
          w1 |-> Lookback(rows, Days1W),
          m1 |-> Lookback(rows, Days1M),
          m3 |-> Lookback(rows, Days3M),
          m6 |-> Lookback(rows, Days6M),
          y1 |-> Lookback(rows, Days1Y)]
    ELSE NaColumns

\* (current_price - ref) / ref raises: TypeError when either operand is text,
\* ZeroDivisionError when python numbers are divided by zero (numpy doubles give
\* inf or nan instead)
ChangeRaises(rows, cur, ref) ==
    \/ IsText(cur)
    \/ IsText(ref)
    \/ ObjectDtype(rows) /\ ref.Close = 0

\* the order in which the columns are assigned: 1D first, then the timeframes
\* in the order of the dict
ColumnOrder == <<"d1", "w1", "m1", "m3", "m6", "y1">>

DaysBack(name) ==
    CASE name = "w1" -> Days1W [] name = "m1" -> Days1M [] name = "m3" -> Days3M
      [] name = "m6" -> Days6M [] OTHER -> Days1Y

\* does the computation of this column raise?
ColumnRaises(rows, name) ==
    LET cur == rows[Len(rows)]
    IN  IF name = "d1" THEN ChangeRaises(rows, cur, rows[Len(rows) - 1])
        ELSE LET past_data == PastData(rows, cur.date - DaysBack(name))
             IN  /\ past_data # <<>>
                 /\ ChangeRaises(rows, cur, past_data[Len(past_data)])

\* position in ColumnOrder of the first column whose computation raises, 7 when
\* none does
FirstRaise(rows) ==
    LET raising == {i \in 1..6 : ColumnRaises(rows, ColumnOrder[i])}
    IN  IF raising = {} THEN 7
        ELSE CHOOSE i \in raising : \A j \in raising : i <= j

\* the six columns computed from a frame: the columns assigned before an
\* exception keep their value, the others stay NA
Columns(rows) ==
    IF ~DfEmpty(rows) /\ Len(rows) > 1
    THEN LET f == FirstRaise(rows)
         IN  [d1 |-> IF 1 < f
                     THEN PctChange(rows[Len(rows)].Close, rows[Len(rows) - 1].Close)
                     ELSE NA,
              w1 |-> IF 2 < f THEN Lookback(rows, Days1W) ELSE NA,
              m1 |-> IF 3 < f THEN Lookback(rows, Days1M) ELSE NA,
              m3 |-> IF 4 < f THEN Lookback(rows, Days3M) ELSE NA,
              m6 |-> IF 5 < f THEN Lookback(rows, Days6M) ELSE NA,
              y1 |-> IF 6 < f THEN Lookback(rows, Days1Y) ELSE NA]
    ELSE NaColumns

RowData(asset, ticker, cols) ==
    [Asset |-> asset,
     Ticker |-> IF Truthy(ticker) THEN ticker.str ELSE sNotFound,
     cols |-> cols]

\* entry of get_asset_performance: an empty TickerMap returns an empty frame
get_asset_performance_enter ==
    /\ pc = "start"
    /\ pc' = IF DfEmpty(ticker_df) THEN "done" ELSE "assets"
    /\ UNCHANGED <<impl, portfolio_df, driftVars, dipVars, perfVars>>
    /\ UNCHANGED mainVars

\* `for asset in unique_assets`: the loop takes the next asset
get_asset_performance_next ==
    /\ pc = "assets"
    /\ asset_i < Len(UniqueAssets(portfolio_df))
    /\ pc' = "asset"
    /\ asset_i' = asset_i + 1
    /\ hist' = NoCall
    /\ UNCHANGED <<impl, portfolio_df, driftVars, dipVars, ticker_df, performance_data>>
    /\ UNCHANGED mainVars

\* the loop body for one asset
get_asset_performance_asset ==
    /\ pc = "asset"
    /\ pc' = "assets"
    /\ LET asset == UniqueAssets(portfolio_df)[asset_i]
           ticker == AssetToTicker(ticker_df, Strip(asset))
       IN  IF TickerUsable(ticker)
           THEN \E resp \in PerfResponses(ticker.str) :
                  /\ hist' = [called |-> TRUE, ticker |-> ticker.str,
                              err |-> resp.err, rows |-> resp.rows]
                  /\ performance_data' =
                        Append(performance_data,
                               RowData(asset, ticker,
                                       IF resp.err THEN NaColumns
                                       ELSE Columns(resp.rows)))
           ELSE /\ hist' = NoCall
                /\ performance_data' =
                      Append(performance_data, RowData(asset, ticker, NaColumns))
    /\ UNCHANGED <<impl, portfolio_df, driftVars, dipVars, ticker_df, asset_i>>
    /\ UNCHANGED mainVars

\* return pd.DataFrame(performance_data)
get_asset_performance_return ==
    /\ pc = "assets"
    /\ asset_i = Len(UniqueAssets(portfolio_df))
    /\ pc' = "done"
    /\ UNCHANGED <<impl, portfolio_df, driftVars, dipVars, perfVars>>
    /\ UNCHANGED mainVars

PerfInit ==
    /\ impl = "app"
    /\ pc = "start"
    /\ portfolio_df \in PerfPortfolios \ {<<>>}
    /\ rules_sheet = <<>> /\ rules_df = <<>>
    /\ rebalance_insights = <<>> /\ rebalance_shown = <<>>
    /\ watchlist_df = <<>> /\ row_i = 0 /\ data = NoCall
    /\ market_insights = <<>> /\ market_shown = <<>>
    /\ ticker_df \in TickerMaps
    /\ asset_i = 0 /\ hist = NoCall /\ performance_data = <<>>
    /\ MainIdle

PerfNext ==
    \/ get_asset_performance_enter
    \/ get_asset_performance_next
    \/ get_asset_performance_asset
    \/ get_asset_performance_return

SpecPerf == PerfInit /\ [][PerfNext]_vars

-----------------------------------------------------------------------------
(* The callers of the analyzers: run_agent.main (the scheduled run) and     *)
(* app.render_dashboard_tab (the dashboard), with analyze_market_news,      *)
(* get_llm_summary and send_whatsapp_message.                                *)

\* frames the loaders hand to a run
MainPortfolios ==
    {<<>>, <<[Asset |-> "A", Category |-> "Equity", Current_Value |-> 3]>>}

MainRules == {<<>>, <<Rule("Equity", 60, 5)>>, <<Rule("Gold", 5, 5)>>}

\* answers of the price provider during a run: an exception, an empty frame, a
\* close at the high, a close 15% below the high
MainDipResponses ==
    { [called |-> TRUE, err |-> TRUE, rows |-> <<>>],
      [called |-> TRUE, err |-> FALSE, rows |-> <<>>],
      [called |-> TRUE, err |-> FALSE,
       rows |-> <<[High |-> Price(100), Close |-> Price(100)]>>],
      [called |-> TRUE, err |-> FALSE,
       rows |-> <<[High |-> Price(100), Close |-> Price(100)],
                  [High |-> Price(90), Close |-> Price(85)]>>] }

\* check_market_dips leaves with an exception: some row makes the except clause
\* raise
DipsRaise(wl) == \E i \in 1..Len(wl) : HandlerRaises(wl[i])

\* insight_messages of check_market_dips over the rows wl, the provider
\* answering resps[i] for the i-th of them
RECURSIVE MarketInsights(_, _, _)
MarketInsights(im, wl, resps) ==
    IF wl = <<>> THEN <<>>
    ELSE (IF RowKeyError(Head(wl)) THEN <<>>
          ELSE DipReturned(im, Head(wl), Head(resps)))
         \o MarketInsights(im, Tail(wl), Tail(resps))

\* the lines the same scan displays; i is the number of the first row of wl
RECURSIVE MarketShown(_, _, _, _)
MarketShown(im, wl, resps, i) ==
    IF wl = <<>> THEN <<>>
    ELSE (IF RowKeyError(Head(wl))
          THEN <<Shown(i, [kind |-> "ERROR", asset_name |-> Head(wl).Asset_Name])>>
          ELSE DipShown(im, i, Head(wl), Head(resps)))
         \o MarketShown(im, Tail(wl), Tail(resps), i + 1)

\* texts of the language model, as sequences of tokens
tSentiment == "SENTIMENT:"
sPaddedSentiment == <<" ", "SENTIMENT:", "POSITIVE">>
sLateSentiment == <<"unclear", "SENTIMENT:">>
sSummary == <<"summary">>
sNoKey == <<"GROQ_API_KEY not found in Streamlit secrets.">>

\* one watchlist row's news analysis: were headlines found (app.py reads
\* ticker_obj.news), did the chat completion raise, and what did it say
NewsResponses ==
    { [headlines |-> FALSE, raises |-> FALSE, content |-> <<>>],
      [headlines |-> TRUE, raises |-> TRUE, content |-> <<>>],
      [headlines |-> TRUE, raises |-> FALSE, content |-> sPaddedSentiment],
      [headlines |-> TRUE, raises |-> FALSE, content |-> sLateSentiment] }

\* str.startswith("SENTIMENT:")
StartsWithSentiment(str) == str # <<>> /\ Head(str) = tSentiment

\* faulty variant: a failed analysis appends nothing, as in app.py
NewsEntry_SilentFailure(im, w, resp) ==
    IF resp.raises THEN <<>>
    ELSE IF StartsWithSentiment(Strip(resp.content))
    THEN <<[kind |-> "SENTIMENT", text |-> Strip(resp.content)]>>
    ELSE <<[kind |-> "NEWS", reason |-> "unclear", asset_name |-> w.Asset_Name]>>

\* what one iteration of analyze_market_news appends to news_insights.
\* run_agent.py asks the model about every row and always appends a line;
\* app.py skips a row without headlines, appends the model's sentence whatever
\* it says, and appends nothing when the analysis raises
NewsEntry(im, w, resp) ==
    IF im = "agent"
    THEN IF resp.raises
         THEN <<[kind |-> "NEWS", reason |-> "failed", asset_name |-> w.Asset_Name]>>
         ELSE IF StartsWithSentiment(Strip(resp.content))
         THEN <<[kind |-> "SENTIMENT", text |-> Strip(resp.content)]>>
         ELSE <<[kind |-> "NEWS", reason |-> "unclear", asset_name |-> w.Asset_Name]>>
    ELSE IF ~resp.headlines \/ resp.raises THEN <<>>
         ELSE <<[kind |-> "SENTIMENT", text |-> Strip(resp.content)]>>

\* answers of the chat completion asked for the summary: an exception, an empty
\* text, a text
SummarizerResponses ==
    { [called |-> TRUE, raises |-> TRUE, content |-> <<>>],
      [called |-> TRUE, raises |-> FALSE, content |-> <<>>],
      [called |-> TRUE, raises |-> FALSE, content |-> sSummary] }

\* faulty variant: the test looks at the two older lists only
AllEmpty_TwoLists(reb, mkt, news) == reb = <<>> /\ mkt = <<>>

\* not rebalance_insights and not market_insights and not news_insights
AllEmpty(reb, mkt, news) == reb = <<>> /\ mkt = <<>> /\ news = <<>>

\* faulty variant: get_llm_summary without its try: the exception goes to the caller
SummaryOutcome_NoTry(resp) ==
    [pc |-> IF resp.raises THEN "raised" ELSE "summarized",
     summary |-> IF resp.raises THEN None
                 ELSE [none |-> FALSE, str |-> resp.content]]

\* get_llm_summary after the chat completion: its text, or None when it raised
SummaryOutcome(resp) ==
    [pc |-> "summarized",
     summary |-> IF resp.raises THEN None
                 ELSE [none |-> FALSE, str |-> resp.content]]

\* faulty variant: main tests `summary is None`
SummaryMissing_NoneOnly(s) == s.none

\* `if not summary` in main: None and the empty text
SummaryMissing(s) == ~Truthy(s)

unchangedAnalyzers ==
    UNCHANGED <<rebalance_insights, rebalance_shown, row_i, data, market_insights,
                market_shown, perfVars>>

unchangedFrames == UNCHANGED <<impl, portfolio_df, rules_sheet, rules_df, watchlist_df>>

\* get_gsheet_client and the test that follows it: run_agent.main returns
\* without a client, the dashboard goes on (its loaders then return empty frames)
main_connect ==
    /\ pc = "connect"
    /\ \E ok \in BOOLEAN :
         /\ gsheet_client' = ok
         /\ pc' = IF ~ok /\ impl = "agent" THEN "done" ELSE "load"
         /\ report' = IF ~ok /\ impl = "agent" THEN "no_client" ELSE report
    /\ unchangedFrames /\ unchangedAnalyzers
    /\ UNCHANGED <<has_groq_key, news_i, news_insights, summary, completion,
                   summarizer_calls, whatsapp_sent>>

\* load_portfolio, load_rules_from_sheet, load_watchlist
main_load ==
    /\ pc = "load"
    /\ pc' = "rebalance"
    /\ IF gsheet_client
       THEN /\ portfolio_df' \in MainPortfolios
            /\ rules_df' \in MainRules
            /\ watchlist_df' \in Watchlists
       ELSE portfolio_df' = <<>> /\ rules_df' = <<>> /\ watchlist_df' = <<>>
    /\ rules_sheet' = rules_df'
    /\ unchangedAnalyzers
    /\ UNCHANGED <<impl, mainVars>>

\* rebalance_insights = generate_rebalance_insights(portfolio_df, rules_df)
main_rebalance ==
    /\ pc = "rebalance"
    /\ pc' = "dips"
    /\ IF DfEmpty(portfolio_df) \/ DfEmpty(rules_df)
       THEN /\ rebalance_insights' = <<>>
            /\ rebalance_shown' = <<>>
       ELSE /\ rebalance_insights' = ReturnedInsights(impl, portfolio_df, rules_df)
            /\ rebalance_shown' = ShownLines(impl, portfolio_df, rules_df)
    /\ unchangedFrames
    /\ UNCHANGED <<dipVars, perfVars, mainVars>>

\* market_insights = check_market_dips(watchlist_df); an exception that leaves
\* check_market_dips ends the run
main_dips ==
    /\ pc = "dips"
    /\ IF DipsRaise(watchlist_df)
       THEN /\ pc' = "raised"
            /\ report' = "exception"
            /\ UNCHANGED <<market_insights, market_shown>>
       ELSE /\ pc' = "news"
            /\ report' = report
            /\ \E resps \in [1..Len(watchlist_df) -> MainDipResponses] :
                 /\ market_insights' = MarketInsights(impl, watchlist_df, resps)
                 /\ market_shown' = MarketShown(impl, watchlist_df, resps, 1)
    /\ unchangedFrames
    /\ UNCHANGED <<rebalance_insights, rebalance_shown, row_i, data, perfVars,
                   gsheet_client, has_groq_key, news_i, news_insights, summary,
                   completion, summarizer_calls, whatsapp_sent>>

\* entry of analyze_market_news: the dashboard calls it for a non-empty
\* watchlist only, and it returns [] when the key is not configured
analyze_market_news_enter ==
    /\ pc = "news"
    /\ pc' = IF impl = "app" /\ (DfEmpty(watchlist_df) \/ ~has_groq_key)
             THEN "aggregate" ELSE "news_loop"
    /\ unchangedFrames /\ unchangedAnalyzers
    /\ UNCHANGED mainVars

\* `for index, row in watchlist_df.iterrows()` with the two reads of the row
\* that precede the try: a missing column raises KeyError and ends the run
analyze_market_news_next ==
    /\ pc = "news_loop"
    /\ news_i < Len(watchlist_df)
    /\ news_i' = news_i + 1
    /\ completion' = NoCall
    /\ IF RowKeyError(watchlist_df[news_i + 1])
       THEN pc' = "raised" /\ report' = "exception"
       ELSE pc' = "news_row" /\ report' = report
    /\ unchangedFrames /\ unchangedAnalyzers
    /\ UNCHANGED <<gsheet_client, has_groq_key, news_insights, summary,
                   summarizer_calls, whatsapp_sent>>

\* the try of the loop body for row news_i
analyze_market_news_row ==
    /\ pc = "news_row"
    /\ pc' = "news_loop"
    /\ \E resp \in NewsResponses :
         /\ completion' =
               IF impl = "app" /\ ~resp.headlines THEN NoCall
               ELSE [called |-> TRUE, raises |-> resp.raises, content |-> resp.content]
         /\ news_insights' =
               news_insights \o NewsEntry(impl, watchlist_df[news_i], resp)
    /\ unchangedFrames /\ unchangedAnalyzers
    /\ UNCHANGED <<gsheet_client, has_groq_key, news_i, summary,
                   summarizer_calls, whatsapp_sent, report>>

\* return news_insights
analyze_market_news_return ==
    /\ pc = "news_loop"
    /\ news_i = Len(watchlist_df)
    /\ pc' = "aggregate"
    /\ completion' = NoCall
    /\ unchangedFrames /\ unchangedAnalyzers
    /\ UNCHANGED <<gsheet_client, has_groq_key, news_i, news_insights, summary,
                   summarizer_calls, whatsapp_sent, report>>

\* the test on the three lists: run_agent.main prints that there is no insight
\* and returns, the dashboard displays "All systems normal"
main_aggregate ==
    /\ pc = "aggregate"
    /\ IF AllEmpty(rebalance_insights, market_insights, news_insights)
       THEN pc' = "done" /\ report' = "no_insights"
       ELSE pc' = "summarize" /\ report' = report
    /\ unchangedFrames /\ unchangedAnalyzers
    /\ UNCHANGED <<gsheet_client, has_groq_key, news_i, news_insights, summary,
                   completion, summarizer_calls, whatsapp_sent>>

\* get_llm_summary(rebalance_insights, market_insights, news_insights)
get_llm_summary ==
    /\ pc = "summarize"
    /\ IF AllEmpty(rebalance_insights, market_insights, news_insights)
       THEN /\ pc' = "summarized"
            /\ summary' = [none |-> FALSE, str |-> <<"No specific insights">>]
            /\ UNCHANGED <<completion, summarizer_calls>>
       ELSE IF impl = "app" /\ ~has_groq_key
       THEN /\ pc' = "summarized"
            /\ summary' = [none |-> FALSE, str |-> sNoKey]
            /\ UNCHANGED <<completion, summarizer_calls>>
       ELSE \E resp \in SummarizerResponses :
              /\ completion' = resp
              /\ summarizer_calls' = summarizer_calls + 1
              /\ pc' = SummaryOutcome(resp).pc
              /\ summary' = SummaryOutcome(resp).summary
    /\ unchangedFrames /\ unchangedAnalyzers
    /\ UNCHANGED <<gsheet_client, has_groq_key, news_i, news_insights,
                   whatsapp_sent, report>>

\* the caller's test of the summary: run_agent.main returns without one, the
\* dashboard displays it when there is one
main_summary ==
    /\ pc = "summarized"
    /\ IF SummaryMissing(summary)
       THEN pc' = "done" /\ report' = "no_summary"
       ELSE IF impl = "agent"
       THEN pc' = "send" /\ report' = report
       ELSE pc' = "done" /\ report' = "summary_shown"
    /\ unchangedFrames /\ unchangedAnalyzers
    /\ UNCHANGED <<gsheet_client, has_groq_key, news_i, news_insights, summary,
                   completion, summarizer_calls, whatsapp_sent>>

\* send_whatsapp_message(summary): Twilio accepts the message, or an exception
\* is caught and False returned; main ignores the result
send_whatsapp_message ==
    /\ pc = "send"
    /\ pc' = "done"
    /\ \E accepted \in BOOLEAN :
         /\ whatsapp_sent' = IF accepted THEN whatsapp_sent + 1 ELSE whatsapp_sent
         /\ report' = IF accepted THEN "sent" ELSE "send_failed"
    /\ unchangedFrames /\ unchangedAnalyzers
    /\ UNCHANGED <<gsheet_client, has_groq_key, news_i, news_insights, summary,
                   completion, summarizer_calls>>

\* the scheduled run always has its key (the module exits without it); the
\* dashboard may lack it
MainInit ==
    /\ impl \in Impls
    /\ pc = "connect"
    /\ portfolio_df = <<>> /\ rules_sheet = <<>> /\ rules_df = <<>>
    /\ rebalance_insights = <<>> /\ rebalance_shown = <<>>
    /\ watchlist_df = <<>> /\ row_i = 0 /\ data = NoCall
    /\ market_insights = <<>> /\ market_shown = <<>>
    /\ ticker_df = <<>> /\ asset_i = 0 /\ hist = NoCall /\ performance_data = <<>>
    /\ gsheet_client = FALSE
    /\ has_groq_key \in (IF impl = "agent" THEN {TRUE} ELSE BOOLEAN)
    /\ news_i = 0 /\ news_insights = <<>>
    /\ summary = None
    /\ completion = NoCall
    /\ summarizer_calls = 0 /\ whatsapp_sent = 0
    /\ report = "running"

MainNext ==
    \/ main_connect
    \/ main_load
    \/ main_rebalance
    \/ main_dips
    \/ analyze_market_news_enter
    \/ analyze_market_news_next
    \/ analyze_market_news_row
    \/ analyze_market_news_return
    \/ main_aggregate
    \/ get_llm_summary
    \/ main_summary
    \/ send_whatsapp_message

SpecMain == MainInit /\ [][MainNext]_vars

-----------------------------------------------------------------------------
(* Properties of the drift detector *)

DriftRan == pc = "done" /\ ~DfEmpty(portfolio_df) /\ ~DfEmpty(rules_df)

\* drift of a rule and its comparison, written out on the sheet's integers:
\* V the category's summed value, T the portfolio total
ExpectAlert(pf, rule) ==
    LET T == TotalValue(pf)
        V == CategoryValue(pf, rule.Category)
        held == rule.Category \in HeldCategories(pf)
    IN  IF ~held \/ (T = 0 /\ V = 0)
        THEN Abs(0 - rule.Target_Percentage) > rule.Rebalance_Threshold
        ELSE IF T = 0 THEN TRUE
        ELSE Abs(100 * V - rule.Target_Percentage * T) > rule.Rebalance_Threshold * Abs(T)

ExpectOver(pf, rule) ==
    LET T == TotalValue(pf)
        V == CategoryValue(pf, rule.Category)
        held == rule.Category \in HeldCategories(pf)
    IN  IF ~held \/ (T = 0 /\ V = 0) THEN 0 - rule.Target_Percentage > 0
        ELSE IF T = 0 THEN V > 0
        ELSE IF T > 0 THEN 100 * V - rule.Target_Percentage * T > 0
        ELSE 100 * V - rule.Target_Percentage * T < 0

\* rules 1..i that are in alert
AlertsUpTo(i) == {j \in 1..i : ExpectAlert(portfolio_df, rules_df[j])}

\* C1 as stated: with non-empty Holdings and AllocationRules the returned list
\* holds exactly one insight per rule, the i-th about the i-th rule's category.
C1_OneInsightPerRule ==
    DriftRan =>
        /\ Len(rebalance_insights) = Len(rules_df)
        /\ \A i \in 1..Len(rules_df) :
               rebalance_insights[i].category = rules_df[i].Category

\* C1 amended: the returned list holds exactly one ALERT for each rule that is in
\* alert and nothing for a rule within its threshold, in rule order; the
\* dashboard (app.py) displays one line per rule, ALERT or OK, in rule order.
C1_OneAlertPerAlertedRule ==
    DriftRan =>
        /\ Len(rebalance_insights) = Cardinality(AlertsUpTo(Len(rules_df)))
        /\ \A j \in 1..Len(rebalance_insights) : rebalance_insights[j].kind = "ALERT"
        /\ \A i \in AlertsUpTo(Len(rules_df)) :
               rebalance_insights[Cardinality(AlertsUpTo(i))].category
                   = rules_df[i].Category
        /\ impl = "app" =>
               /\ Len(rebalance_shown) = Len(rules_df)
               /\ \A i \in 1..Len(rules_df) :
                      /\ rebalance_shown[i].category = rules_df[i].Category
                      /\ rebalance_shown[i].kind \in {"ALERT", "OK"}

\* two rules, the first within its threshold and the second in alert: one
\* insight is returned, about the second rule
C1_Witness ==
    /\ DriftRan
    /\ Len(rules_df) = 2
    /\ ~ExpectAlert(portfolio_df, rules_df[1])
    /\ ExpectAlert(portfolio_df, rules_df[2])
    /\ rules_df[1].Category # rules_df[2].Category
    /\ Len(rebalance_insights) = 1
    /\ rebalance_insights[1].category = rules_df[2].Category

\* C2: a rule gives ALERT exactly when |current_percentage - target_percentage|
\* is strictly greater than rebalance_threshold; the ALERT says over-allocated
\* when the drift is positive and under-allocated otherwise.
C2_AlertIffDriftExceedsThreshold ==
    DriftRan =>
        /\ Len(rebalance_insights) = Cardinality(AlertsUpTo(Len(rules_df)))
        /\ \A i \in 1..Len(rules_df) :
             LET rule == rules_df[i]
                 msg == rebalance_insights[Cardinality(AlertsUpTo(i))]
             IN  /\ ExpectAlert(portfolio_df, rule) =>
                        /\ msg.kind = "ALERT"
                        /\ msg.category = rule.Category
                        /\ msg.target = rule.Target_Percentage
                        /\ msg.status = IF ExpectOver(portfolio_df, rule)
                                        THEN "over-allocated" ELSE "under-allocated"
                 /\ impl = "app" =>
                        rebalance_shown[i].kind =
                            IF ExpectAlert(portfolio_df, rule) THEN "ALERT" ELSE "OK"
        /\ impl = "agent" => rebalance_shown = rebalance_insights

\* the spec's example, in thousands: Equity 7 / Debt 3, rule Equity 60 +-5
ExamplePortfolio(pf) ==
    /\ Len(pf) = 2
    /\ pf[1].Category = "Equity" /\ pf[1].Current_Value = 7
    /\ pf[2].Category = "Debt" /\ pf[2].Current_Value = 3

\* the example: current 70.0%, target 60, drift 10.0%, ALERT, over-allocated;
\* and the same holdings under target 65 (drift exactly 5) give no alert
C2_Witness ==
    /\ DriftRan
    /\ ExamplePortfolio(portfolio_df)
    /\ Len(rules_df) = 2
    /\ rules_df[1] = [Category |-> "Equity", Target_Percentage |-> 60,
                      Rebalance_Threshold |-> 5]
    /\ rules_df[2] = [Category |-> "Equity", Target_Percentage |-> 65,
                      Rebalance_Threshold |-> 5]
    /\ Len(rebalance_insights) = 1
    /\ rebalance_insights[1].kind = "ALERT"
    /\ rebalance_insights[1].curr = [txt |-> "num", tenths |-> 700]
    /\ rebalance_insights[1].target = 60
    /\ rebalance_insights[1].drift = [txt |-> "num", tenths |-> 100]
    /\ rebalance_insights[1].status = "over-allocated"

\* C3 as stated: empty Holdings, or Holdings whose values sum to 0, give an
\* empty insight list whatever the rules are.
C3_ZeroTotalGivesNoInsight ==
    (pc = "done" /\ (DfEmpty(portfolio_df) \/ TotalValue(portfolio_df) = 0))
        => rebalance_insights = <<>>

\* C4: when the analysis runs, a rule whose category has no Holding is analysed
\* at current_percentage 0: it is alerted, as under-allocated, exactly when its
\* target_percentage exceeds its rebalance_threshold.
C4_RuleWithoutHolding ==
    DriftRan =>
        \A i \in 1..Len(rules_df) :
            LET rule == rules_df[i]
                before == Cardinality(AlertsUpTo(i - 1))
                zero == [txt |-> "num", tenths |-> 0]
            IN  rule.Category \notin HeldCategories(portfolio_df) =>
                  IF rule.Target_Percentage > rule.Rebalance_Threshold
                  THEN /\ Len(rebalance_insights) > before
                       /\ rebalance_insights[before + 1].kind = "ALERT"
                       /\ rebalance_insights[before + 1].category = rule.Category
                       /\ rebalance_insights[before + 1].curr = zero
                       /\ rebalance_insights[before + 1].status = "under-allocated"
                       /\ impl = "app" => rebalance_shown[i].kind = "ALERT"
                  ELSE /\ Len(rebalance_insights) =
                              before + Cardinality(AlertsUpTo(Len(rules_df)))
                                     - Cardinality(AlertsUpTo(i))
                       /\ impl = "app" =>
                              /\ rebalance_shown[i].kind = "OK"
                              /\ rebalance_shown[i].curr = zero

\* Gold has a rule and no holding: target 60 > threshold 5 is alerted,
\* target 5 = threshold 5 is not
C4_Witness ==
    /\ DriftRan
    /\ "Gold" \notin HeldCategories(portfolio_df)
    /\ Len(rules_df) = 2
    /\ rules_df[1] = [Category |-> "Gold", Target_Percentage |-> 5,
                      Rebalance_Threshold |-> 5]
    /\ rules_df[2] = [Category |-> "Gold", Target_Percentage |-> 60,
                      Rebalance_Threshold |-> 5]
    /\ Len(rebalance_insights) = 1
    /\ rebalance_insights[1].status = "under-allocated"
    /\ rebalance_insights[1].curr = [txt |-> "num", tenths |-> 0]

-----------------------------------------------------------------------------
(* Properties of the dip scout *)

\* the row just processed got a frame from the provider
DipFetched == row_i >= 1 /\ data.called /\ ~data.err

\* the frame has no row, or no high at all, or no close at all
NoPriceData(rows) ==
    \/ Len(rows) = 0
    \/ \A j \in 1..Len(rows) : rows[j].High.na
    \/ \A j \in 1..Len(rows) : rows[j].Close.na

\* max(high) and the last non-missing close, read off the frame directly
HighOf(rows) ==
    CHOOSE h \in {rows[j].High.v : j \in {k \in 1..Len(rows) : ~rows[k].High.na}} :
        \A j \in 1..Len(rows) : ~rows[j].High.na => rows[j].High.v <= h

CurrentOf(rows) ==
    LET last == CHOOSE j \in 1..Len(rows) :
                    /\ ~rows[j].Close.na
                    /\ \A k \in (j + 1)..Len(rows) : rows[k].Close.na
    IN  rows[last].Close.v

\* |100 * (current_price - high_52_week) / high_52_week| > threshold, high > 0
ExpectDip(rows, threshold) ==
    Abs(100 * (CurrentOf(rows) - HighOf(rows))) > threshold * HighOf(rows)

\* the OPPORTUNITY / OK lines displayed for watchlist row i
InsightLines(i) ==
    {k \in 1..Len(market_shown) :
        market_shown[k].row = i /\ market_shown[k].kind \in {"OPPORTUNITY", "OK"}}

RECURSIVE OpportunityLines(_)
OpportunityLines(shown) ==
    IF shown = <<>> THEN <<>>
    ELSE IF Head(shown).kind = "OPPORTUNITY"
         THEN <<Head(shown).line>> \o OpportunityLines(Tail(shown))
         ELSE OpportunityLines(Tail(shown))

\* C5: for a watchlist entry whose price history is available, the scout emits
\* OPPORTUNITY exactly when |100*(current_price - high_52_week)/high_52_week|
\* exceeds dip_threshold_percent, with high_52_week = max(high) and
\* current_price the last non-missing close, and OK otherwise; the returned
\* list holds exactly the OPPORTUNITY lines.
C5_OpportunityIffBeyondThreshold ==
    /\ market_insights = OpportunityLines(market_shown)
    /\ (DipFetched /\ ~NoPriceData(data.rows)) =>
          LET w == watchlist_df[row_i]
              last == market_shown[Len(market_shown)]
          IN  /\ InsightLines(row_i) = {Len(market_shown)}
              /\ last.line.asset_name = w.Asset_Name
              /\ last.kind = IF ExpectDip(data.rows, w.Dip_Threshold_Percent)
                             THEN "OPPORTUNITY" ELSE "OK"

\* the spec's example: high 100, last close 85, threshold 10: 15.0% below the
\* high, OPPORTUNITY
C5_Witness ==
    /\ DipFetched
    /\ Len(data.rows) = 2
    /\ ~NoPriceData(data.rows)
    /\ HighOf(data.rows) = 100
    /\ data.rows[1].Close = Price(100)
    /\ data.rows[2].Close = Price(85)
    /\ watchlist_df[row_i].Dip_Threshold_Percent = 10
    /\ market_shown[Len(market_shown)].kind = "OPPORTUNITY"
    /\ market_shown[Len(market_shown)].line.pct = [txt |-> "num", tenths |-> 150]
    /\ market_insights[Len(market_insights)] = market_shown[Len(market_shown)].line

\* the same prices under threshold 15: exactly at the threshold, OK
C5_WitnessBoundary ==
    /\ DipFetched
    /\ ~NoPriceData(data.rows)
    /\ HighOf(data.rows) = 100 /\ CurrentOf(data.rows) = 85
    /\ watchlist_df[row_i].Dip_Threshold_Percent = 15
    /\ market_shown[Len(market_shown)].kind = "OK"

\* C6 as stated: an entry gets one insight, except that an entry whose series is
\* empty, or whose highs are all missing, or whose closes are all missing, gets
\* none (neither OPPORTUNITY nor OK).
C6_SkippedWithoutPriceData ==
    DipFetched =>
        IF NoPriceData(data.rows)
        THEN InsightLines(row_i) = {}
        ELSE Cardinality(InsightLines(row_i)) = 1

-----------------------------------------------------------------------------
(* Properties of the performance calculator *)

\* the body of the loop has just run for asset number asset_i
AssetDone == pc \in {"assets", "done"} /\ asset_i >= 1

ThisAsset == UniqueAssets(portfolio_df)[asset_i]
ThisRow == performance_data[Len(performance_data)]

\* the provider returned a frame for the asset just processed
HistFetched == AssetDone /\ hist.called /\ ~hist.err

Windows == {<<"w1", Days1W>>, <<"m1", Days1M>>, <<"m3", Days3M>>,
            <<"m6", Days6M>>, <<"y1", Days1Y>>}

ColumnOf(cols, name) ==
    CASE name = "d1" -> cols.d1 [] name = "w1" -> cols.w1 [] name = "m1" -> cols.m1
      [] name = "m3" -> cols.m3 [] name = "m6" -> cols.m6 [] OTHER -> cols.y1

\* the points dated at or before current_date - days_back
Eligible(rows, days_back) ==
    IF rows = <<>> THEN {}
    ELSE {j \in 1..Len(rows) : rows[j].date <= rows[Len(rows)].date - days_back}

\* the chronologically latest of them
LatestEligible(rows, days_back) ==
    CHOOSE j \in Eligible(rows, days_back) :
        \A k \in Eligible(rows, days_back) : rows[k].date <= rows[j].date

\* every Close of the frame is a number, as in a PriceSeries
NumericFrame(rows) == \A j \in 1..Len(rows) : DOMAIN rows[j] = {"date", "Close"}

\* C7: on a series of numeric closes, each lookback column is computed against
\* the close of the chronologically latest point dated at or before
\* current_date - days_back, and is NA exactly when there is no such point.  For
\* a Mon-Fri series whose current_date is a Monday and that reaches back a week,
\* the 1-week reference is a point at or before the previous Monday, never the
\* Friday three days back.
C7_LookbackReference ==
    (HistFetched /\ NumericFrame(hist.rows)) =>
        /\ \A w \in Windows :
             LET col == ColumnOf(ThisRow.cols, w[1])
                 rows == hist.rows
             IN  IF Eligible(rows, w[2]) = {}
                 THEN col = NA
                 ELSE /\ col # NA
                      /\ col = PctChange(rows[Len(rows)].Close,
                                         rows[LatestEligible(rows, w[2])].Close)
        /\ LET rows == hist.rows
           IN  ( /\ Len(rows) >= 2
                 /\ \A j \in 1..Len(rows) : Weekday(rows[j].date) <= 4
                 /\ Weekday(rows[Len(rows)].date) = 0
                 /\ \E j \in 1..Len(rows) : rows[j].date <= rows[Len(rows)].date - 7 )
               => /\ ThisRow.cols.w1 # NA
                  /\ \E j \in 1..Len(rows) :
                        /\ rows[j].date <= rows[Len(rows)].date - 7
                        /\ \A k \in 1..Len(rows) :
                              rows[k].date <= rows[Len(rows)].date - 7
                                  => rows[k].date <= rows[j].date
                        /\ ThisRow.cols.w1 =
                               PctChange(rows[Len(rows)].Close, rows[j].Close)

\* Mon 371 (close 100), Fri 368 (100), Mon 364 (50), Fri 361 (100): the 1-week
\* column is +100.00%, against the previous Monday, and the 1-year column is NA
C7_Witness ==
    /\ HistFetched
    /\ hist.rows = << [date |-> 361, Close |-> 100], [date |-> 364, Close |-> 50],
                      [date |-> 368, Close |-> 100], [date |-> 371, Close |-> 100] >>
    /\ ThisRow.cols.w1 = [txt |-> "pct", sign |-> "+", hundredths |-> 10000]
    /\ ThisRow.cols.d1 = [txt |-> "pct", sign |-> "+", hundredths |-> 0]
    /\ ThisRow.cols.y1 = NA

DistinctAssets(pf) == {pf[i].Asset : i \in 1..Len(pf)}

SixColumns(row) == DOMAIN row.cols = {"d1", "w1", "m1", "m3", "m6", "y1"}

OneRowPerAsset ==
    /\ Len(performance_data) = Cardinality(DistinctAssets(portfolio_df))
    /\ {performance_data[i].Asset : i \in 1..Len(performance_data)}
           = DistinctAssets(portfolio_df)
    /\ \A i \in 1..Len(performance_data) : SixColumns(performance_data[i])

\* C8 as stated: whatever the TickerMap, an empty one included, the table has
\* exactly one row per distinct asset of Holdings, each with the six columns.
C8_OneRowPerAssetAnyTickerMap == pc = "done" => OneRowPerAsset

\* C8 amended: for a non-empty TickerMap the table has exactly one row per
\* distinct asset of Holdings, each with the six columns; for an empty TickerMap
\* the table is empty.
C8_OneRowPerAssetNonEmptyMap ==
    pc = "done" =>
        IF DfEmpty(ticker_df) THEN performance_data = <<>> ELSE OneRowPerAsset

\* one asset held under two categories: one row
C8_Witness ==
    /\ pc = "done"
    /\ ~DfEmpty(ticker_df)
    /\ Len(portfolio_df) = 2
    /\ portfolio_df[1].Asset = portfolio_df[2].Asset
    /\ portfolio_df[1].Category # portfolio_df[2].Category
    /\ Len(performance_data) = 1

IsBlankString(str) == \A i \in 1..Len(str) : str[i] = Blank

\* rows of the TickerMap for an asset, compared on trimmed names
MapRowsFor(asset) ==
    {j \in 1..Len(ticker_df) : Strip(ticker_df[j].Asset) = Strip(asset)}

\* the asset has no row in the TickerMap, or only rows with a blank ticker
AbsentOrBlank(asset) ==
    \A j \in MapRowsFor(asset) : IsBlankString(ticker_df[j].Ticker)

\* C9: an asset absent from the TickerMap, or mapped to a blank ticker, gets a
\* row with ticker "Not Found" and NA in all six columns, and the provider is
\* not called for it.
C9_NotFoundRow ==
    (AssetDone /\ AbsentOrBlank(ThisAsset)) =>
        /\ ThisRow.Asset = ThisAsset
        /\ ThisRow.Ticker = sNotFound
        /\ ThisRow.cols = NaColumns
        /\ ~hist.called

\* B is mapped to a blank ticker (spaces only)
C9_Witness ==
    /\ AssetDone
    /\ ThisAsset = sB
    /\ MapRowsFor(sB) # {}
    /\ \A j \in MapRowsFor(sB) : ticker_df[j].Ticker = sBlank
    /\ ThisRow.Ticker = sNotFound
    /\ ~hist.called

\* C10: a frame of fewer than 2 points for a resolved ticker gives NA in the
\* 1-day column and the five lookback columns; the row still reports the ticker.
C10_InsufficientHistory ==
    (HistFetched /\ Len(hist.rows) < 2) =>
        /\ ThisRow.cols = NaColumns
        /\ ThisRow.Ticker = hist.ticker
        /\ ThisRow.Ticker # sNotFound

\* exactly one point
C10_Witness ==
    /\ HistFetched
    /\ Len(hist.rows) = 1
    /\ ThisRow.Ticker = sX
    /\ ThisRow.cols.d1 = NA /\ ThisRow.cols.y1 = NA

\* an exception is raised while the frame's columns are computed: the current
\* price, the previous close or the reference of some window is text
FailsMidRow(rows) ==
    /\ Len(rows) >= 2
    /\ \/ ~NumericFrame(<<rows[Len(rows)], rows[Len(rows) - 1]>>)
       \/ \E w \in Windows :
             /\ Eligible(rows, w[2]) # {}
             /\ ~NumericFrame(<<rows[LatestEligible(rows, w[2])]>>)

\* the processing of the asset just handled met an exception
AssetFailed == AssetDone /\ hist.called /\ (hist.err \/ FailsMidRow(hist.rows))

\* the rows appended for earlier assets are left as they were
EarlierRowsKept ==
    Len(performance_data') >= Len(performance_data)
    /\ SubSeq(performance_data', 1, Len(performance_data)) = performance_data

\* C11 as stated: an exception at any point of an asset's processing (provider
\* error, or a non-numeric price met after some columns were computed) leaves
\* that asset's row with all six columns NA, and no other asset's row is
\* affected.
C11_FailedRowAllNA ==
    /\ [](AssetFailed => ThisRow.cols = NaColumns)
    /\ [][EarlierRowsKept]_vars

-----------------------------------------------------------------------------
(* Failure isolation of the dip scout *)

\* C12 as stated: a failure on one watchlist entry (provider error, or a row
\* missing its ticker, asset name or threshold) never aborts the scan: the scan
\* ends only after every entry was processed, and the insights already collected
\* are returned.
C12_ScanNeverAborts ==
    /\ pc # "raised"
    /\ pc = "done" => row_i = Len(watchlist_df)

-----------------------------------------------------------------------------
(* Failure isolation of the drift detector *)

\* all three fields of the rule are as the AllocationRules table defines them
NumericRule(rule) ==
    DOMAIN rule = {"Category", "Target_Percentage", "Rebalance_Threshold"}

\* the well-formed rows of the Rules sheet, in sheet order
RECURSIVE WellFormed(_)
WellFormed(sheet) ==
    IF sheet = <<>> THEN <<>>
    ELSE IF NumericRule(Head(sheet))
         THEN <<Head(sheet)>> \o WellFormed(Tail(sheet))
         ELSE WellFormed(Tail(sheet))

\* C13 as stated: a rule whose computation fails on a malformed numeric field is
\* the only one skipped: with non-empty Holdings, every well-formed rule of the
\* sheet that is in alert still has its ALERT in the returned list.
C13_OnlyFailingRuleSkipped ==
    (pc = "done" /\ ~DfEmpty(portfolio_df)) =>
        Len(rebalance_insights) =
            Cardinality({j \in 1..Len(WellFormed(rules_sheet)) :
                            ExpectAlert(portfolio_df, WellFormed(rules_sheet)[j])})

-----------------------------------------------------------------------------
(* Properties of the callers *)

\* the test on the three lists has been made in this run
PastAggregate ==
    \/ pc \in {"summarize", "summarized", "send"}
    \/ pc = "done" /\ report \notin {"no_client", "running"}

NoInsightAtAll ==
    Len(rebalance_insights) + Len(market_insights) + Len(news_insights) = 0

\* C14: when the rebalance, market and sentiment lists are all empty the caller
\* reports "no insights" and the summarizer is not invoked in that run; the
\* summarizer is invoked only in a run where some list is non-empty.
C14_SentinelWithoutSummarizer ==
    /\ (PastAggregate /\ NoInsightAtAll) =>
           /\ pc = "done"
           /\ report = "no_insights"
           /\ summarizer_calls = 0
    /\ report = "no_insights" => (NoInsightAtAll /\ summarizer_calls = 0)
    /\ summarizer_calls > 0 => ~NoInsightAtAll

\* Holdings, rules and a watchlist are there, no analyzer has anything to say:
\* the run ends on "no insights" without a summarizer call
C14_Witness ==
    /\ pc = "done"
    /\ report = "no_insights"
    /\ ~DfEmpty(portfolio_df) /\ ~DfEmpty(rules_df) /\ ~DfEmpty(watchlist_df)
    /\ summarizer_calls = 0

\* the chat completion of get_llm_summary raised
SummarizerFailed == pc \in {"summarized", "done"} /\ completion.called /\ completion.raises

InsightLists == <<rebalance_insights, market_insights, news_insights>>

\* get_llm_summary and the caller's test of its result go on to the next step of
\* the run and leave the three lists alone
SummaryStepKeepsLists ==
    pc \in {"summarize", "summarized"} =>
        (pc' \in {"summarized", "send", "done"} /\ InsightLists' = InsightLists)

\* C15: when the summarizer raises, get_llm_summary returns None to its caller
\* instead of raising, and the three insight lists are as they were before the
\* call, during it and until the end of the run.
C15_SummarizerFailureContained ==
    /\ [](SummarizerFailed => (summary = None /\ summarizer_calls = 1))
    /\ [][SummaryStepKeepsLists]_vars

\* the summarizer raised on a run with a rebalance alert: no summary, the run
\* has ended and the alert is still there
C15_Witness ==
    /\ SummarizerFailed
    /\ pc = "done"
    /\ report = "no_summary"
    /\ summary = None
    /\ Len(rebalance_insights) = 1

\* C19: in the scheduled run at most one WhatsApp message is sent, and only
\* after the summarizer returned a non-empty summary in a run where some list
\* is non-empty; a run that has no sheet client, or no insight, or whose
\* summarizer failed, ends without a message.
C19_WhatsAppAtMostOnce ==
    impl = "agent" =>
        /\ whatsapp_sent <= 1
        /\ whatsapp_sent = 1 =>
               /\ pc = "done"
               /\ completion.called /\ ~completion.raises
               /\ completion.content # <<>>
               /\ summary = [none |-> FALSE, str |-> completion.content]
               /\ ~NoInsightAtAll
        /\ (pc \notin {"connect"} /\ ~gsheet_client) => (pc = "done" /\ whatsapp_sent = 0)
        /\ (PastAggregate /\ NoInsightAtAll) => (pc = "done" /\ whatsapp_sent = 0)
        /\ (completion.called /\ pc \in {"summarized", "send", "done"}
              /\ (completion.raises \/ completion.content = <<>>))
               => (pc \in {"summarized", "done"} /\ whatsapp_sent = 0)

\* a message was sent
C19_Witness ==
    /\ impl = "agent"
    /\ pc = "done"
    /\ whatsapp_sent = 1
    /\ report = "sent"
    /\ summary.str = sSummary

\* run_agent.analyze_market_news is at the head of its loop, or has returned
NewsCounted ==
    impl = "agent" /\ (pc \in {"news_loop", "aggregate", "summarize", "summarized", "send"}
                        \/ (pc = "done" /\ gsheet_client))

\* an iteration of run_agent.analyze_market_news appends one entry and keeps
\* the earlier ones
NewsRowAppendsOne ==
    (impl = "agent" /\ pc = "news_row") =>
        /\ Len(news_insights') = Len(news_insights) + 1
        /\ SubSeq(news_insights', 1, Len(news_insights)) = news_insights

\* C20: run_agent.analyze_market_news appends exactly one entry per watchlist
\* row, in watchlist order: a SENTIMENT or NEWS line when the model answered, a
\* "Failed to analyze" NEWS line when the call raised; so the scheduled run
\* reports "no insights" only for an empty watchlist.
C20_OneNewsEntryPerRow ==
    /\ [](NewsCounted =>
            /\ Len(news_insights) = news_i
            /\ \A i \in 1..news_i :
                  /\ news_insights[i].kind \in {"SENTIMENT", "NEWS"}
                  /\ news_insights[i].kind = "NEWS" =>
                         news_insights[i].asset_name = watchlist_df[i].Asset_Name)
    /\ []((impl = "agent" /\ pc = "news_loop" /\ completion.called) =>
            (completion.raises <=>
                 (news_insights[news_i].kind = "NEWS"
                    /\ news_insights[news_i].reason = "failed")))
    /\ []((impl = "agent" /\ pc \in {"aggregate", "summarize", "summarized", "send"}) =>
            Len(news_insights) = Len(watchlist_df))
    /\ []((impl = "agent" /\ report = "no_insights") => DfEmpty(watchlist_df))
    /\ [][NewsRowAppendsOne]_vars

\* two rows: the call raised for the first and answered for the second
C20_Witness ==
    /\ impl = "agent"
    /\ pc = "aggregate"
    /\ Len(watchlist_df) = 2
    /\ Len(news_insights) = 2
    /\ news_insights[1] = [kind |-> "NEWS", reason |-> "failed",
                           asset_name |-> watchlist_df[1].Asset_Name]
    /\ news_insights[2].kind = "SENTIMENT"

-----------------------------------------------------------------------------
(* Ticker resolution, the sign of the dip and a zero reference price *)

\* the first row of the TickerMap whose trimmed asset is the trimmed asset
FirstMapRow(asset) ==
    CHOOSE j \in MapRowsFor(asset) : \A k \in MapRowsFor(asset) : j <= k

\* C16 as stated: when the TickerMap has several rows for the same trimmed
\* asset name, the row of the table reports the ticker of the first of them
\* ("Not Found" when that ticker is empty); asset names are compared trimmed.
C16_FirstRowWins ==
    (AssetDone /\ MapRowsFor(ThisAsset) # {}) =>
        ThisRow.Ticker =
            IF Strip(ticker_df[FirstMapRow(ThisAsset)].Ticker) = <<>>
            THEN sNotFound
            ELSE Strip(ticker_df[FirstMapRow(ThisAsset)].Ticker)

\* C17 as stated: whatever frame the provider returns, the current price is at
\* most the 52-week high, so percent_from_high <= 0 and an OPPORTUNITY is only
\* emitted for a price below the high.
C17_NeverAboveHigh ==
    (DipFetched /\ ~NoPriceData(data.rows)) =>
        CurrentOf(data.rows) <= HighOf(data.rows)

\* C18 as stated: a column whose reference price is 0 (the previous close for
\* the 1-day column, the lookback reference for the others) is reported NA.
C18_ZeroReferenceGivesNA ==
    (HistFetched /\ NumericFrame(hist.rows) /\ Len(hist.rows) >= 2) =>
        LET rows == hist.rows
        IN  /\ rows[Len(rows) - 1].Close = 0 => ThisRow.cols.d1 = NA
            /\ \A w \in Windows :
                  (/\ Eligible(rows, w[2]) # {}
                   /\ rows[LatestEligible(rows, w[2])].Close = 0)
                      => ColumnOf(ThisRow.cols, w[1]) = NA

====
